---- MODULE Spec2Model ----
(***************************************************************************)
(* mcphero BaseAdapter (src/mcphero/adapters/base_adapter.py): the MCP     *)
(* session handshake, the three init modes and the reply parsing, as a     *)
(* state machine.  A step of a caller is the code that runs between two    *)
(* awaits: from a call (or from the receipt of an HTTP reply) up to the    *)
(* next client.post, whose request is on the wire when the step ends.      *)
(* The server is the environment: the reply to a request is any member of  *)
(* a small set of replies, handed to the step that receives it.            *)
(***************************************************************************)
EXTENDS Integers, Sequences, FiniteSets, TLC

\* ------------------------------------------------------------------ bounds

\* Public calls (initialize, get_mcp_tools, call_mcp_tool) made on one client.
MaxOps == 3

\* Public calls made on one client by callers that race.
MaxRacingOps == 2

\* Lines (with their line feed) of a body the server writes.
MaxLines == 3

\* Calls of the application to the methods of the OpenAI adapter.
MaxAdapterCalls == 2

\* Tool calls handed to one process_tool_calls.
MaxToolCalls == 2

\* Coroutines that may call into the one adapter instance.
Callers == {"c1", "c2"}

\* The caller of the sequential specification.
SeqCallers == {"c1"}

\* ------------------------------------------------------------- python values

\* Python's None, for the string-valued fields.
None == "None"

PROTOCOL_VERSION == "2025-06-18"

InitMode == {"auto", "on_fail", "none"}

\* ------------------------------------------------------------------ headers

HeaderNames == {"Accept", "Authorization", "Mcp-Session-Id", "MCP-Protocol-Version"}

\* A header mapping: a value for each name, None when the name is not a key.
NoHeaders == [n \in HeaderNames |-> None]

\* The dict display {**a, **b}: the keys of b override those of a.
MergeHeaders(a, b) == [n \in HeaderNames |-> IF b[n] # None THEN b[n] ELSE a[n]]

\* d[name] = value on a copy of d.
SetHeader(d, name, value) == [d EXCEPT ![name] = value]

AcceptHeader == SetHeader(NoHeaders, "Accept", "application/json, text/event-stream")

\* The `headers` argument of the constructor (None or {} gives {}).
ExtraHeaderChoices ==
    { NoHeaders,
      SetHeader(NoHeaders, "Authorization", "Bearer tok") }

\* Extra headers that name headers the adapter sets itself.
OverridingHeaderChoices ==
    { SetHeader(NoHeaders, "Accept", "text/html"),
      SetHeader(SetHeader(NoHeaders, "Mcp-Session-Id", "sess-own"),
                "MCP-Protocol-Version", "2024-01-01") }

\* ---------------------------------------------------------- JSON documents

\* A JSON text is a sequence of characters.  The documents the server sends
\* are single tokens: "A" an initialize result naming protocolVersion
\* 2024-11-05, "B" an initialize result without protocolVersion, "C" an
\* initialize result whose protocolVersion is null, "E" a
\* JSON-RPC error object (no result member), "T" a tools result (the
\* JSON-RPC response whose result lists the server's tools), "L" a bare JSON
\* array of the server's tools, "O" the JSON object of a tool's arguments,
\* "N" the JSON value null.
DocChars == {"A", "B", "C", "E", "T", "L", "O", "N"}

WhiteChars == {" ", "\n"}

\* The value of a key a dict does not have (what dict.get answers with its
\* default).
Missing == "Missing"

\* The parsed document (a dict): whether it has a "result" member, the
\* protocolVersion of that member (Missing when it has none, None when it is
\* null), and its identity.
Doc(ch) ==
    [ tag             |-> ch,
      hasResult       |-> ch \in {"A", "B", "C", "T"},
      protocolVersion |-> CASE ch = "A" -> "2024-11-05"
                            [] ch = "C" -> None
                            [] OTHER    -> Missing ]

\* Python's None where a dict is expected.
NoDoc == [tag |-> None, hasResult |-> FALSE, protocolVersion |-> None]

RECURSIVE lstrip(_, _)
lstrip(s, chars) ==
    IF s # <<>> /\ Head(s) \in chars THEN lstrip(Tail(s), chars) ELSE s

RECURSIVE rstrip(_, _)
rstrip(s, chars) ==
    IF s # <<>> /\ s[Len(s)] \in chars
    THEN rstrip(SubSeq(s, 1, Len(s) - 1), chars)
    ELSE s

\* json.loads: white space around one document (null gives None); anything
\* else is a JSONDecodeError (ok = FALSE).
json_loads(s) ==
    LET t == rstrip(lstrip(s, WhiteChars), WhiteChars)
    IN  IF Len(t) = 1 /\ t[1] \in DocChars
        THEN [ok |-> TRUE, doc |-> IF t[1] = "N" THEN NoDoc ELSE Doc(t[1])]
        ELSE [ok |-> FALSE, doc |-> NoDoc]

\* ------------------------------------------------------------- event streams

\* str.splitlines on "\n": the lines without their terminators; a final
\* terminator opens no further line.
RECURSIVE splitlines_from(_, _)
splitlines_from(s, cur) ==
    IF s = <<>> THEN (IF cur = <<>> THEN <<>> ELSE <<cur>>)
    ELSE IF Head(s) = "\n" THEN <<cur>> \o splitlines_from(Tail(s), <<>>)
    ELSE splitlines_from(Tail(s), Append(cur, Head(s)))

splitlines(s) == splitlines_from(s, <<>>)

DataPrefix == <<"d", "a", "t", "a", ":">>

startswith(line, prefix) ==
    Len(line) >= Len(prefix) /\ SubSeq(line, 1, Len(prefix)) = prefix

\* "\n".join(data_lines)
RECURSIVE join_lines(_)
join_lines(ls) ==
    IF ls = <<>> THEN <<>>
    ELSE IF Len(ls) = 1 THEN ls[1]
    ELSE ls[1] \o <<"\n">> \o join_lines(Tail(ls))

\* The payload appended for a data line: line[5:].lstrip(" ").
data_payload(line) == lstrip(SubSeq(line, 6, Len(line)), {" "})

\* Every text that the loop appends to data_lines, in the order of the lines.
RECURSIVE appended_payloads(_)
appended_payloads(lines) ==
    IF lines = <<>> THEN <<>>
    ELSE IF startswith(Head(lines), DataPrefix)
    THEN << data_payload(Head(lines)) >> \o appended_payloads(Tail(lines))
    ELSE appended_payloads(Tail(lines))

\* The loop keeping the first event's document instead of the last.
RECURSIVE sse_loop_first_event(_, _, _)
sse_loop_first_event(lines, data_lines, result) ==
    IF lines = <<>>
    THEN IF data_lines # <<>> /\ ~result.found
         THEN LET p == json_loads(join_lines(data_lines))
              IN  IF p.ok THEN [raised |-> FALSE, found |-> p.doc # NoDoc, doc |-> p.doc]
                  ELSE [raised |-> TRUE, found |-> FALSE, doc |-> NoDoc]
         ELSE [raised |-> FALSE, found |-> result.found, doc |-> result.doc]
    ELSE LET line == Head(lines)
         IN  IF startswith(line, DataPrefix)
             THEN sse_loop_first_event(Tail(lines),
                                       Append(data_lines, data_payload(line)), result)
             ELSE IF line = <<>> /\ data_lines # <<>>
             THEN LET p == json_loads(join_lines(data_lines))
                  IN  IF ~p.ok
                      THEN [raised |-> TRUE, found |-> FALSE, doc |-> NoDoc]
                      ELSE IF result.found
                      THEN sse_loop_first_event(Tail(lines), <<>>, result)
                      ELSE sse_loop_first_event(Tail(lines), <<>>,
                                                [found |-> p.doc # NoDoc, doc |-> p.doc])
             ELSE sse_loop_first_event(Tail(lines), data_lines, result)

\* The loop of _parse_sse_response over the lines, with its two locals (found
\* says that result is not None); a json.loads that raises ends the parse
\* (raised = TRUE).
RECURSIVE sse_loop(_, _, _)
sse_loop(lines, data_lines, result) ==
    IF lines = <<>>
    THEN IF data_lines # <<>>
         THEN LET p == json_loads(join_lines(data_lines))
              IN  IF p.ok THEN [raised |-> FALSE, found |-> p.doc # NoDoc, doc |-> p.doc]
                  ELSE [raised |-> TRUE, found |-> FALSE, doc |-> NoDoc]
         ELSE [raised |-> FALSE, found |-> result.found, doc |-> result.doc]
    ELSE LET line == Head(lines)
         IN  IF startswith(line, DataPrefix)
             THEN sse_loop(Tail(lines), Append(data_lines, data_payload(line)), result)
             ELSE IF line = <<>> /\ data_lines # <<>>
             THEN LET p == json_loads(join_lines(data_lines))
                  IN  IF p.ok
                      THEN sse_loop(Tail(lines), <<>>, [found |-> p.doc # NoDoc, doc |-> p.doc])
                      ELSE [raised |-> TRUE, found |-> FALSE, doc |-> NoDoc]
             ELSE sse_loop(Tail(lines), data_lines, result)

\* _parse_sse_response returning None when it found no event.
_parse_sse_response_lenient(text) ==
    LET r == sse_loop(splitlines(text), <<>>, [found |-> FALSE, doc |-> NoDoc])
    IN  IF r.raised THEN [exc |-> "JSONDecodeError", doc |-> NoDoc]
        ELSE [exc |-> None, doc |-> r.doc]

\* _parse_sse_response: the last event's document; exc names the exception
\* raised (None when it returns).
_parse_sse_response(text) ==
    LET r == sse_loop(splitlines(text), <<>>, [found |-> FALSE, doc |-> NoDoc])
    IN  IF r.raised THEN [exc |-> "JSONDecodeError", doc |-> NoDoc]
        ELSE IF ~r.found THEN [exc |-> "ValueError", doc |-> NoDoc]
        ELSE [exc |-> None, doc |-> r.doc]

\* A content type is the sequence of the pieces of its text: the media type
\* first, then its parameters.  "" (no Content-Type header) has no piece.
NoContentType == <<>>

JsonType == <<"application/json">>

JsonCharsetType == <<"application/json", "; charset=utf-8">>

EventStreamType == <<"text/event-stream">>

EventStreamCharsetType == <<"text/event-stream", "; charset=utf-8">>

PlainType == <<"text/plain">>

ContentTypes ==
    { NoContentType, JsonType, JsonCharsetType, EventStreamType,
      EventStreamCharsetType, PlainType }

\* content_type == "text/event-stream"
IsEventStreamExact(content_type) == content_type = <<"text/event-stream">>

\* "text/event-stream" in content_type: the text occurs somewhere in it.
IsEventStream(content_type) ==
    \E i \in 1..Len(content_type) : content_type[i] = "text/event-stream"

\* _parse_response: by content type, an event stream or one JSON document.
_parse_response(response) ==
    IF IsEventStream(response.content_type)
    THEN _parse_sse_response(response.text)
    ELSE LET p == json_loads(response.text)
         IN  IF p.ok THEN [exc |-> None, doc |-> p.doc]
             ELSE [exc |-> "JSONDecodeError", doc |-> NoDoc]

\* ------------------------------------------------------------ server replies

Is2xx(status) == status >= 200 /\ status < 300

\* Python's truth test on an optional string: None and "" are false.
Truthy(v) == v # None /\ v # ""

\* An httpx.Response, or the exception client.post raises instead of one.
Response(status, session_id, content_type, text) ==
    [ exc          |-> None,
      status       |-> status,
      session_id   |-> session_id,
      content_type |-> content_type,
      text         |-> text ]

PostTimeout ==
    [ exc          |-> "TimeoutException",
      status       |-> 0,
      session_id   |-> None,
      content_type |-> NoContentType,
      text         |-> <<>> ]

\* No response at all (nothing recorded yet).
NoResponse ==
    [ exc          |-> None,
      status       |-> 0,
      session_id   |-> None,
      content_type |-> NoContentType,
      text         |-> <<>> ]

SseOf(ch) == <<"d", "a", "t", "a", ":", " ", ch, "\n", "\n">>

\* An event stream with a comment line and no data line.
SseNoData == <<":", "\n", "\n">>

SessionIds == {"sess-1", "sess-2"}

\* What the server may answer to the initialize request.
InitializeReplies ==
    { Response(200, sid, JsonType, <<ch>>) :
          sid \in SessionIds \cup {None}, ch \in {"A", "B", "E"} }
    \cup { Response(200, sid, EventStreamType, text) :
          sid \in SessionIds \cup {None}, text \in {SseOf("A"), SseNoData} }
    \cup { Response(200, "sess-1", JsonType, <<"C">>) }
    \cup { Response(st, None, PlainType, <<>>) : st \in {400, 500} }
    \cup { PostTimeout }

\* What the server may answer to notifications/initialized.
NotificationReplies ==
    { Response(st, None, NoContentType, <<>>) : st \in {202, 400} } \cup { PostTimeout }

\* What the server may answer to tools/list and tools/call.
RequestReplies ==
    { Response(200, None, JsonType, <<"T">>),
      Response(200, "sess-2", JsonType, <<"T">>),
      Response(200, None, EventStreamCharsetType, SseOf("T")),
      Response(200, None, EventStreamType, SseNoData) }
    \cup { Response(st, None, PlainType, <<>>) : st \in {400, 500} }
    \cup { PostTimeout }

\* The replies of the server when several callers race: two handshakes that
\* differ in session id and version, one without a session id, one whose body
\* cannot be parsed, a failure status, no reply.
RacingInitializeReplies ==
    { Response(200, "sess-1", JsonType, <<"A">>),
      Response(200, "sess-2", JsonType, <<"B">>),
      Response(200, None, JsonType, <<"B">>),
      Response(200, "sess-2", EventStreamType, SseNoData),
      Response(400, None, PlainType, <<>>),
      PostTimeout }

RacingNotificationReplies == NotificationReplies

RacingRequestReplies ==
    { Response(200, None, JsonType, <<"T">>),
      Response(400, None, PlainType, <<>>),
      PostTimeout }

\* A reply that is a success for the request it answers: a 2xx status and,
\* where the body is parsed, a body that parses (for initialize: to a
\* document with a result member).
ReplyOk(method, r) ==
    /\ r.exc = None
    /\ Is2xx(r.status)
    /\ method # "notifications/initialized" =>
          /\ _parse_response(r).exc = None
          /\ method = "initialize" => _parse_response(r).doc.hasResult

\* ---------------------------------------------------------------- the state

VARIABLES
    init_mode,            \* self.init_mode
    headers,              \* self.headers
    _session_id,          \* self._session_id
    _protocol_version,    \* self._protocol_version
    _initialize_result,   \* self._initialize_result
    task,                 \* per caller: where its coroutine stands, its locals
    trace,                \* per caller: the requests, replies and outcome of its call
    ops,                  \* public calls started so far
    next_id,              \* the next uuid4
    posts,                \* requests sent so far, by method
    clean,                \* every reply so far was a success
    init_returns,         \* the values initialize() calls have returned so far
    recorded,             \* the response _initialize_result was last stored from
    frame,                \* per caller: the method of the OpenAI adapter it runs
    body,                 \* the text of the body the server is writing
    parsed                \* what _parse_sse_response(body) gave, when it was called

vars == << init_mode, headers, _session_id, _protocol_version, _initialize_result,
           task, trace, ops, next_id, posts, clean, init_returns, recorded,
           frame, body, parsed >>

session == << _session_id, _protocol_version, _initialize_result >>

config == << init_mode, headers >>

NoData == [id |-> 0, method |-> None, params |-> None]

NoOutcome == [kind |-> None, doc |-> NoDoc, exc |-> None, status |-> 0, at |-> 0]

IdleTask ==
    [ pc |-> "idle", op |-> None, via |-> None, _retry |-> TRUE,
      data |-> NoData, result |-> NoDoc ]

EmptyTrace ==
    [ sent |-> <<>>, got |-> <<>>, outcome |-> NoOutcome, initialized |-> FALSE,
      before |-> << None, None, NoDoc >> ]

Methods == {"initialize", "notifications/initialized", "tools/list", "tools/call"}

\* No method of the OpenAI adapter is running: its arguments, its locals
\* (the index of the tool call in hand, the list it builds), what it returned
\* or raised, and what became of each tool call.
IdleFrame ==
    [ method        |-> None,
      tool_calls    |-> <<>>,
      return_errors |-> TRUE,
      i             |-> 0,
      results       |-> <<>>,
      outcome       |-> [kind |-> None, exc |-> None],
      log           |-> <<>> ]

\* _parse_sse_response not called yet.
NotParsed == [called |-> FALSE, exc |-> None, doc |-> NoDoc, appended |-> <<>>]

\* The state after BaseAdapter(base_url, headers=..., init_mode=...), the
\* extra headers being one of `choices`.
Constructed(choices) ==
    /\ init_mode \in InitMode
    /\ headers \in choices
    /\ _session_id = None
    /\ _protocol_version = None
    /\ _initialize_result = NoDoc
    /\ task = [c \in Callers |-> IdleTask]
    /\ trace = [c \in Callers |-> EmptyTrace]
    /\ ops = 0
    /\ next_id = 1
    /\ posts = [m \in Methods |-> 0]
    /\ clean = TRUE
    /\ init_returns = {}
    /\ recorded = NoResponse
    /\ frame = [c \in Callers |-> IdleFrame]
    /\ body = <<>>
    /\ parsed = NotParsed

Init == Constructed(ExtraHeaderChoices)

\* The whole state as one value, so that the code of a step, which runs
\* several methods one after the other, is a composition of functions on it.
Cur ==
    [ _session_id        |-> _session_id,
      _protocol_version  |-> _protocol_version,
      _initialize_result |-> _initialize_result,
      task               |-> task,
      trace              |-> trace,
      next_id            |-> next_id,
      posts              |-> posts,
      clean              |-> clean,
      init_returns       |-> init_returns,
      recorded           |-> recorded,
      frame              |-> frame ]

Becomes(st) ==
    /\ _session_id' = st._session_id
    /\ _protocol_version' = st._protocol_version
    /\ _initialize_result' = st._initialize_result
    /\ task' = st.task
    /\ trace' = st.trace
    /\ next_id' = st.next_id
    /\ posts' = st.posts
    /\ clean' = st.clean
    /\ init_returns' = st.init_returns
    /\ recorded' = st.recorded
    /\ frame' = st.frame
    /\ UNCHANGED << config, body, parsed >>

\* ------------------------------------------------------- the code of a step

\* headers of initialize(): {"Accept": ..., **self.headers}.
InitializeHeaders == MergeHeaders(AcceptHeader, headers)

\* notify_headers of initialize(): a copy of its headers, with the session id
\* when one is stored.
NotifyHeaders(st) ==
    IF Truthy(st._session_id)
    THEN SetHeader(InitializeHeaders, "Mcp-Session-Id", st._session_id)
    ELSE InitializeHeaders

\* headers of _make_request(): Accept and the extra headers, then the session
\* id and the protocol version when they are stored.
RequestHeaders(st) ==
    LET h0 == MergeHeaders(AcceptHeader, headers)
        h1 == IF Truthy(st._session_id)
              THEN SetHeader(h0, "Mcp-Session-Id", st._session_id) ELSE h0
    IN  IF Truthy(st._protocol_version)
        THEN SetHeader(h1, "MCP-Protocol-Version", st._protocol_version) ELSE h1

\* client.post(self.base_url, json=...): the request is on the wire, and the
\* caller waits for its reply at `pc`.
\* The record of the request keeps its body (method, id, params), its headers
\* and the session fields as they were stored when it was sent.
post(st, c, pc, json, hdrs) ==
    [ st EXCEPT
        !.task[c].pc = pc,
        !.trace[c].sent =
            Append(@, [ method  |-> json.method,
                        id      |-> json.id,
                        params  |-> json.params,
                        headers |-> hdrs,
                        stored  |-> [ session_id       |-> st._session_id,
                                      protocol_version |-> st._protocol_version ] ]),
        !.posts[json.method] = @ + 1 ]

\* The public call of c returns doc.
return(st, c, doc) ==
    [ st EXCEPT
        !.task[c].pc = "idle",
        !.trace[c].outcome =
            [kind |-> "return", doc |-> doc, exc |-> None, status |-> 0, at |-> 0],
        !.init_returns =
            IF st.task[c].op = "initialize" THEN @ \cup {doc} ELSE @ ]

\* The public call of c raises: exc, with the status of the response it
\* carries (0 when it carries none) and the request of this call the
\* response answered.
raise(st, c, exc, status) ==
    [ st EXCEPT
        !.task[c].pc = "idle",
        !.trace[c].outcome =
            [ kind |-> "raise", doc |-> NoDoc, exc |-> exc, status |-> status,
              at |-> Len(st.trace[c].sent) ] ]

\* _make_request up to its await: the headers from the state as it is now,
\* then the post of the envelope.
_make_request(st, c, data, _retry) ==
    post([st EXCEPT !.task[c].data = data, !.task[c]._retry = _retry],
         c, "await_request", data, RequestHeaders(st))

\* The envelope get_mcp_tools / call_mcp_tool build, with a fresh id.
Envelope(st, c) ==
    IF st.task[c].op = "get_mcp_tools"
    THEN [id |-> st.next_id, method |-> "tools/list", params |-> "{}"]
    ELSE [id |-> st.next_id, method |-> "tools/call", params |-> "ping {}"]

\* What runs when initialize() has returned doc to the code that awaited it:
\* the public initialize() returns it; get_mcp_tools / call_mcp_tool build
\* their envelope and send it; the except branch of _make_request sends its
\* envelope again with _retry=False.
initialize_returned(st, c, doc) ==
    CASE st.task[c].via = "direct"  -> return(st, c, doc)
      [] st.task[c].via = "ensure"  ->
            _make_request([st EXCEPT !.next_id = @ + 1], c, Envelope(st, c), TRUE)
      [] st.task[c].via = "recover" ->
            _make_request(st, c, st.task[c].data, FALSE)

\* init_payload of initialize(): a fresh id, the proposed protocol version
\* and the client's identity.
init_payload(st) ==
    [id |-> st.next_id, method |-> "initialize", params |-> PROTOCOL_VERSION]

\* notification of initialize(): no id, no params.
notification ==
    [id |-> 0, method |-> "notifications/initialized", params |-> None]

\* initialize() without the test of the cached result.
initialize_uncached(st, c, via) ==
    post([st EXCEPT !.task[c].via = via, !.next_id = @ + 1], c, "await_initialize",
         init_payload(st), InitializeHeaders)

\* initialize() that posts nothing while the handshake of another caller is
\* in flight.
initialize_single_flight(st, c, via) ==
    LET s1 == [st EXCEPT !.task[c].via = via]
    IN  IF \/ s1._initialize_result # NoDoc
           \/ \E d \in Callers \ {c} :
                 s1.task[d].pc \in {"await_initialize", "await_notification"}
        THEN initialize_returned(s1, c, s1._initialize_result)
        ELSE post([s1 EXCEPT !.next_id = @ + 1], c, "await_initialize",
                  init_payload(s1), InitializeHeaders)

\* initialize() up to its first await: the cached result when there is one,
\* else the post of the initialize request (with a fresh id).
initialize(st, c, via) ==
    LET s1 == [st EXCEPT !.task[c].via = via]
    IN  IF s1._initialize_result # NoDoc
        THEN initialize_returned(s1, c, s1._initialize_result)
        ELSE post([s1 EXCEPT !.next_id = @ + 1], c, "await_initialize",
                  init_payload(s1), InitializeHeaders)

\* _ensure_initialized testing for the wrong mode.
_ensure_initialized_wrong_mode(st, c) ==
    IF init_mode = "on_fail"
    THEN initialize(st, c, "ensure")
    ELSE _make_request([st EXCEPT !.next_id = @ + 1], c, Envelope(st, c), TRUE)

\* _ensure_initialized and what follows it in get_mcp_tools / call_mcp_tool.
_ensure_initialized(st, c) ==
    IF init_mode = "auto"
    THEN initialize(st, c, "ensure")
    ELSE _make_request([st EXCEPT !.next_id = @ + 1], c, Envelope(st, c), TRUE)

\* The header stored whether it is there or not.
store_session_id_always(st, response) ==
    [st EXCEPT !._session_id = response.session_id]

\* session_id = response.headers.get("Mcp-Session-Id"); stored when truthy.
store_session_id(st, response) ==
    IF Truthy(response.session_id)
    THEN [st EXCEPT !._session_id = response.session_id]
    ELSE st

\* result.get("result", {}).get("protocolVersion", PROTOCOL_VERSION)
negotiated_version(doc) ==
    IF doc.hasResult /\ doc.protocolVersion # Missing
    THEN doc.protocolVersion
    ELSE PROTOCOL_VERSION

\* The result stored only when none is stored yet.
store_result_first_wins(st, c, doc) ==
    IF st._initialize_result # NoDoc
    THEN [st EXCEPT !.task[c].result = doc]
    ELSE [ st EXCEPT
             !._protocol_version = negotiated_version(doc),
             !._initialize_result = doc,
             !.task[c].result = doc ]

\* The version stored, the result not.
store_result_forgets(st, c, doc) ==
    [ st EXCEPT
        !._protocol_version = negotiated_version(doc),
        !.task[c].result = doc ]

\* self._protocol_version = ...; self._initialize_result = result
store_result(st, c, doc) ==
    [ st EXCEPT
        !._protocol_version = negotiated_version(doc),
        !._initialize_result = doc,
        !.task[c].result = doc ]

\* initialize() without response.raise_for_status().
initialize_reply_unchecked(st, c, response) ==
    IF response.exc # None THEN raise(st, c, response.exc, 0)
    ELSE LET s1 == store_session_id(st, response)
             p  == _parse_response(response)
         IN  IF p.exc # None THEN raise(s1, c, p.exc, 0)
             ELSE IF p.doc = NoDoc THEN raise(s1, c, "AttributeError", 0)
             ELSE LET s2 == [store_result(s1, c, p.doc) EXCEPT !.recorded = response]
                  IN  post(s2, c, "await_notification",
                           notification, NotifyHeaders(s2))

\* initialize() that does not await the post of its notification.
initialize_reply_no_await(st, c, response) ==
    IF response.exc # None THEN raise(st, c, response.exc, 0)
    ELSE IF ~Is2xx(response.status)
    THEN raise(st, c, "HTTPStatusError", response.status)
    ELSE LET s1 == store_session_id(st, response)
             p  == _parse_response(response)
         IN  IF p.exc # None THEN raise(s1, c, p.exc, 0)
             ELSE IF p.doc = NoDoc THEN raise(s1, c, "AttributeError", 0)
             ELSE LET s2 == [store_result(s1, c, p.doc) EXCEPT !.recorded = response]
                      s3 == post(s2, c, "await_notification",
                                 notification, NotifyHeaders(s2))
                  IN  initialize_returned(s3, c, p.doc)

\* initialize() whose failure in the recovery of _make_request is replaced by
\* the error of the request that started the recovery.
initialize_reply_masked(st, c, response) ==
    IF response.exc # None THEN raise(st, c, response.exc, 0)
    ELSE IF ~Is2xx(response.status)
    THEN IF st.task[c].via = "recover"
         THEN raise(st, c, "HTTPStatusError", st.trace[c].got[1].status)
         ELSE raise(st, c, "HTTPStatusError", response.status)
    ELSE LET s1 == store_session_id(st, response)
             p  == _parse_response(response)
         IN  IF p.exc # None THEN raise(s1, c, p.exc, 0)
             ELSE IF p.doc = NoDoc THEN raise(s1, c, "AttributeError", 0)
             ELSE LET s2 == [store_result(s1, c, p.doc) EXCEPT !.recorded = response]
                  IN  post(s2, c, "await_notification",
                           notification, NotifyHeaders(s2))

\* initialize() from the reply to its initialize request to its second await.
initialize_reply(st, c, response) ==
    IF response.exc # None THEN raise(st, c, response.exc, 0)
    ELSE IF ~Is2xx(response.status)
    THEN raise(st, c, "HTTPStatusError", response.status)
    ELSE LET s1 == store_session_id(st, response)
             p  == _parse_response(response)
         IN  IF p.exc # None THEN raise(s1, c, p.exc, 0)
             ELSE IF p.doc = NoDoc THEN raise(s1, c, "AttributeError", 0)
             ELSE LET s2 == [store_result(s1, c, p.doc) EXCEPT !.recorded = response]
                  IN  post(s2, c, "await_notification",
                           notification, NotifyHeaders(s2))

\* initialize() with raise_for_status() on the reply to its notification.
notification_reply_checked(st, c, response) ==
    IF response.exc # None THEN raise(st, c, response.exc, 0)
    ELSE IF ~Is2xx(response.status)
    THEN raise(st, c, "HTTPStatusError", response.status)
    ELSE initialize_returned(st, c, st.task[c].result)

\* initialize() going on when the post of its notification fails.
notification_reply_swallows(st, c, response) ==
    initialize_returned(st, c, st.task[c].result)

\* initialize() from the reply to its notification: the status is not looked
\* at, and the local result is returned.
notification_reply(st, c, response) ==
    IF response.exc # None THEN raise(st, c, response.exc, 0)
    ELSE initialize_returned(st, c, st.task[c].result)

\* The condition with `is not None` for `is None`.
should_recover_inverted(st, c) ==
    /\ st.task[c]._retry
    /\ init_mode = "on_fail"
    /\ st._initialize_result # NoDoc

\* The condition without the test of the handshake.
should_recover_even_initialized(st, c) ==
    /\ st.task[c]._retry
    /\ init_mode = "on_fail"

\* The condition without the tests of _retry and of the handshake.
should_recover_unguarded(st, c) ==
    init_mode = "on_fail"

\* The condition without the test of the mode.
should_recover_any_mode(st, c) ==
    /\ st.task[c]._retry
    /\ st._initialize_result = NoDoc

\* The condition testing the handshake as it was when the call began.
should_recover_as_sent(st, c) ==
    /\ st.task[c]._retry
    /\ init_mode = "on_fail"
    /\ ~st.trace[c].initialized

\* The condition of the except branch of _make_request.
should_recover(st, c) ==
    /\ st.task[c]._retry
    /\ init_mode = "on_fail"
    /\ st._initialize_result = NoDoc

\* _make_request raising, when the retry fails too, the error of the first
\* attempt.
request_reply_first_error(st, c, response) ==
    IF response.exc # None THEN raise(st, c, response.exc, 0)
    ELSE IF ~Is2xx(response.status)
    THEN IF should_recover(st, c)
         THEN initialize(st, c, "recover")
         ELSE raise(st, c, "HTTPStatusError", st.trace[c].got[1].status)
    ELSE LET p == _parse_response(response)
         IN  IF p.exc # None THEN raise(st, c, p.exc, 0)
             ELSE return(st, c, p.doc)

\* _make_request with the parse inside the try and `except Exception`.
request_reply_any_error(st, c, response) ==
    IF response.exc # None THEN raise(st, c, response.exc, 0)
    ELSE LET p == _parse_response(response)
         IN  IF ~Is2xx(response.status) \/ p.exc # None
             THEN IF should_recover(st, c)
                  THEN initialize(st, c, "recover")
                  ELSE IF ~Is2xx(response.status)
                  THEN raise(st, c, "HTTPStatusError", response.status)
                  ELSE raise(st, c, p.exc, 0)
             ELSE return(st, c, p.doc)

\* _make_request with client.post inside the try and httpx.HTTPError caught.
request_reply_timeout_recovers(st, c, response) ==
    IF response.exc # None \/ ~Is2xx(response.status)
    THEN IF should_recover(st, c)
         THEN initialize(st, c, "recover")
         ELSE IF response.exc # None
         THEN raise(st, c, response.exc, 0)
         ELSE raise(st, c, "HTTPStatusError", response.status)
    ELSE LET p == _parse_response(response)
         IN  IF p.exc # None THEN raise(st, c, p.exc, 0)
             ELSE return(st, c, p.doc)

\* _make_request that stores the Mcp-Session-Id header of its reply.
request_reply_stores_session(st, c, response) ==
    IF response.exc # None THEN raise(st, c, response.exc, 0)
    ELSE IF ~Is2xx(response.status)
    THEN IF should_recover(st, c)
         THEN initialize(st, c, "recover")
         ELSE raise(st, c, "HTTPStatusError", response.status)
    ELSE LET p == _parse_response(response)
             s1 == store_session_id(st, response)
         IN  IF p.exc # None THEN raise(s1, c, p.exc, 0)
             ELSE return(s1, c, p.doc)

\* _make_request from the reply to its post.
request_reply(st, c, response) ==
    IF response.exc # None THEN raise(st, c, response.exc, 0)
    ELSE IF ~Is2xx(response.status)
    THEN IF should_recover(st, c)
         THEN initialize(st, c, "recover")
         ELSE raise(st, c, "HTTPStatusError", response.status)
    ELSE LET p == _parse_response(response)
         IN  IF p.exc # None THEN raise(st, c, p.exc, 0)
             ELSE return(st, c, p.doc)

\* The reply as the caller's call has seen it.
received(st, c, response) ==
    LET method == st.trace[c].sent[Len(st.trace[c].sent)].method
    IN  [ st EXCEPT
            !.trace[c].got = Append(@, response),
            !.clean = @ /\ ReplyOk(method, response) ]

\* A public call starts: a fresh frame and a fresh record of the call.
called(st, c, op) ==
    [ st EXCEPT
        !.task[c] = [IdleTask EXCEPT !.op = op],
        !.trace[c] =
            [ EmptyTrace EXCEPT
                !.initialized = st._initialize_result # NoDoc,
                !.before = << st._session_id, st._protocol_version,
                              st._initialize_result >> ] ]


\* ------------------------------------------------------- the OpenAI adapter

\* The tools the server has.
ServerTools ==
    << [ name |-> "get_weather", description |-> "Get the current weather",
         inputSchema |-> "weather schema" ],
       [ name |-> "ping", description |-> "Ping the server",
         inputSchema |-> Missing ] >>

\* A str met where the loop expects a tool.
Str(s) == [is_str |-> TRUE, str |-> s, tool |-> ServerTools[1]]

Tool(t) == [is_str |-> FALSE, str |-> "", tool |-> t]

\* What `for tool in mcp_tools` goes through: the items of a list, the keys
\* of a dict.
iter(doc) ==
    CASE doc.tag = "L" -> [i \in 1..Len(ServerTools) |-> Tool(ServerTools[i])]
      [] doc.tag = "E" -> << Str("jsonrpc"), Str("id"), Str("error") >>
      [] doc.tag = "O" -> <<>>
      [] OTHER         -> << Str("jsonrpc"), Str("id"), Str("result") >>

\* The default of tool.get("inputSchema", ...).
EmptyObjectSchema == "{type: object, properties: {}}"

\* The ChatCompletionToolParam built from a tool.
ToolParam(t) ==
    [ type        |-> "function",
      name        |-> t.name,
      description |-> IF t.description = Missing THEN "" ELSE t.description,
      parameters  |-> IF t.inputSchema = Missing THEN EmptyObjectSchema
                      ELSE t.inputSchema ]

\* The loop of get_tool_definitions: tool["name"] on a str raises TypeError.
RECURSIVE openai_tools(_)
openai_tools(elements) ==
    IF elements = <<>> THEN [exc |-> None, list |-> <<>>]
    ELSE IF Head(elements).is_str THEN [exc |-> "TypeError", list |-> <<>>]
    ELSE LET rest == openai_tools(Tail(elements))
         IN  IF rest.exc # None THEN rest
             ELSE [ exc  |-> None,
                    list |-> << ToolParam(Head(elements).tool) >> \o rest.list ]

\* The method of the adapter that c runs returns `list`, or raises exc.
frame_return(st, c, list) ==
    [ st EXCEPT !.frame[c].results = list,
                !.frame[c].outcome = [kind |-> "return", exc |-> None] ]

frame_raise(st, c, exc) ==
    [ st EXCEPT !.frame[c].outcome = [kind |-> "raise", exc |-> exc] ]

\* get_tool_definitions after `await self.get_mcp_tools()`.
get_tool_definitions_resumed(st, c) ==
    LET outcome == st.trace[c].outcome
    IN  IF outcome.kind = "raise" THEN frame_raise(st, c, outcome.exc)
        ELSE LET tools == openai_tools(iter(outcome.doc))
             IN  IF tools.exc # None THEN frame_raise(st, c, tools.exc)
                 ELSE frame_return(st, c, tools.list)

\* A tool message: the id of the tool call and the content (what it says,
\* and the document it serializes).
ToolMessage(tool_call, says, doc) ==
    [ tool_call_id |-> tool_call.id,
      role         |-> "tool",
      content      |-> [says |-> says, doc |-> doc] ]

\* httpx.HTTPError is the base class of HTTPStatusError and TimeoutException.
IsHTTPError(exc) == exc \in {"HTTPStatusError", "TimeoutException"}

\* results.append(message), and the record of what became of the tool call.
append_result(st, c, add, message, entry) ==
    [ st EXCEPT
        !.frame[c].results = IF add THEN Append(@, message) ELSE @,
        !.frame[c].log = Append(@, entry) ]

\* The loop of process_tool_calls from its i-th tool call up to the next
\* await: unparsable arguments give an error message (or nothing) and the
\* loop goes on; parsable ones start call_mcp_tool; after the last tool call
\* the method returns its list.
RECURSIVE process_tool_calls_from(_, _, _)
process_tool_calls_from(st, c, i) ==
    LET f == st.frame[c]
    IN  IF i > Len(f.tool_calls) THEN frame_return(st, c, f.results)
        ELSE IF ~json_loads(f.tool_calls[i].arguments).ok
        THEN process_tool_calls_from(
                 append_result(st, c, f.return_errors,
                     ToolMessage(f.tool_calls[i], "Failed to parse tool arguments", NoDoc),
                     [parsed |-> FALSE, kind |-> None, exc |-> "JSONDecodeError",
                      doc |-> NoDoc, requests |-> 0]),
                 c, i + 1)
        ELSE _ensure_initialized(
                 called([st EXCEPT !.frame[c].i = i], c, "call_mcp_tool"), c)

\* process_tool_calls whose loop ends at the first tool call that fails.
process_tool_calls_resumed_stops(st, c) ==
    LET f       == st.frame[c]
        outcome == st.trace[c].outcome
        entry   == [ parsed |-> TRUE, kind |-> outcome.kind, exc |-> outcome.exc,
                     doc |-> outcome.doc, requests |-> Len(st.trace[c].sent) ]
    IN  IF outcome.kind = "return"
        THEN process_tool_calls_from(
                 append_result(st, c, TRUE,
                     ToolMessage(f.tool_calls[f.i], "result", outcome.doc), entry),
                 c, f.i + 1)
        ELSE frame_return(st, c, f.results)

\* process_tool_calls after `await self.call_mcp_tool(...)`: the message of
\* the result, or of the error when return_errors, then the rest of the loop.
process_tool_calls_resumed(st, c) ==
    LET f       == st.frame[c]
        outcome == st.trace[c].outcome
        entry   == [ parsed |-> TRUE, kind |-> outcome.kind, exc |-> outcome.exc,
                     doc |-> outcome.doc, requests |-> Len(st.trace[c].sent) ]
        s1      == IF outcome.kind = "return"
                   THEN append_result(st, c, TRUE,
                            ToolMessage(f.tool_calls[f.i], "result", outcome.doc), entry)
                   ELSE IF IsHTTPError(outcome.exc)
                   THEN append_result(st, c, f.return_errors,
                            ToolMessage(f.tool_calls[f.i], "HTTP error calling tool", NoDoc),
                            entry)
                   ELSE append_result(st, c, f.return_errors,
                            ToolMessage(f.tool_calls[f.i], "Unexpected error", NoDoc),
                            entry)
    IN  process_tool_calls_from(s1, c, f.i + 1)

\* The code that awaited the public call of c, when that call has ended:
\* the method of the adapter goes on; a call made by the application itself
\* has nothing more to run.
resumed(st, c) ==
    IF st.task[c].pc # "idle" \/ st.frame[c].outcome.kind # None THEN st
    ELSE CASE st.frame[c].method = "get_tool_definitions" ->
                  get_tool_definitions_resumed(st, c)
           [] st.frame[c].method = "process_tool_calls" ->
                  process_tool_calls_resumed(st, c)
           [] OTHER -> st

\* ------------------------------------------------------------------ actions

CanCall(c, max) == task[c].pc = "idle" /\ ops < max

\* await adapter.initialize()
Initialize(c, max) ==
    /\ CanCall(c, max)
    /\ ops' = ops + 1
    /\ Becomes(initialize(called(Cur, c, "initialize"), c, "direct"))

\* await adapter.get_mcp_tools()
GetMcpTools(c, max) ==
    /\ CanCall(c, max)
    /\ ops' = ops + 1
    /\ Becomes(_ensure_initialized(called(Cur, c, "get_mcp_tools"), c))

\* await adapter.call_mcp_tool(tool_name, arguments)
CallMcpTool(c, max) ==
    /\ CanCall(c, max)
    /\ ops' = ops + 1
    /\ Becomes(_ensure_initialized(called(Cur, c, "call_mcp_tool"), c))

\* The reply to the initialize request arrives.
InitializeReply(c, replies) ==
    /\ task[c].pc = "await_initialize"
    /\ \E response \in replies :
          Becomes(resumed(initialize_reply(received(Cur, c, response), c, response), c))
    /\ UNCHANGED ops

\* The reply to notifications/initialized arrives.
NotificationReply(c, replies) ==
    /\ task[c].pc = "await_notification"
    /\ \E response \in replies :
          Becomes(resumed(notification_reply(received(Cur, c, response), c, response), c))
    /\ UNCHANGED ops

\* The reply to tools/list or tools/call arrives.
RequestReply(c, replies) ==
    /\ task[c].pc = "await_request"
    /\ \E response \in replies :
          Becomes(resumed(request_reply(received(Cur, c, response), c, response), c))
    /\ UNCHANGED ops

\* One caller: the public calls are issued one after the other, and the
\* server answers each request with any of its replies.
Next ==
    \E c \in SeqCallers :
        \/ Initialize(c, MaxOps)
        \/ GetMcpTools(c, MaxOps)
        \/ CallMcpTool(c, MaxOps)
        \/ InitializeReply(c, InitializeReplies)
        \/ NotificationReply(c, NotificationReplies)
        \/ RequestReply(c, RequestReplies)

Spec == Init /\ [][Next]_vars

\* The same, on a client built with extra headers that name headers the
\* adapter sets itself.
HdrInit == Constructed(OverridingHeaderChoices)

HdrSpec == HdrInit /\ [][Next]_vars

\* ----------------------------------------------- bodies written line by line

\* The lines a server writes into a body: a data line with a document after
\* two spaces, a whole event (a data line with a space after the colon, and
\* the blank line that ends it), a data line with null right after the colon,
\* a data line whose payload is not JSON, a data line without
\* payload, a blank line, another field, and a document on a line of its own
\* (a plain JSON body).
BodyLines ==
    { <<"d", "a", "t", "a", ":", " ", " ", "A">>,
      <<"d", "a", "t", "a", ":", " ", "B", "\n">>,
      <<"d", "a", "t", "a", ":", "N">>,
      <<"d", "a", "t", "a", ":", "{">>,
      <<"d", "a", "t", "a", ":">>,
      <<>>,
      <<"e", "v", "e", "n", "t", ":", "m">>,
      <<"T">> }

\* Lines written so far (each ends with a line feed, but for the last).
BodyComplete == body # <<>> /\ body[Len(body)] # "\n"

\* The server writes one more line, with its line feed.
WriteLine(max) ==
    /\ ops = 0 /\ ~parsed.called /\ ~BodyComplete
    /\ Len(splitlines(body)) < max
    /\ \E line \in BodyLines : body' = body \o line \o <<"\n">>
    /\ UNCHANGED << config, session, task, trace, ops, next_id, posts, clean,
                    init_returns, recorded, frame, parsed >>

\* The server ends the body with a line that has no line feed.
WriteLastLine ==
    /\ ops = 0 /\ ~parsed.called /\ ~BodyComplete
    /\ \E line \in BodyLines :
          /\ line # <<>> /\ line[Len(line)] # "\n"
          /\ body' = body \o line
    /\ UNCHANGED << config, session, task, trace, ops, next_id, posts, clean,
                    init_returns, recorded, frame, parsed >>

\* BaseAdapter._parse_sse_response(body)
ParseSse ==
    /\ ops = 0 /\ ~parsed.called
    /\ parsed' = [ called |-> TRUE,
                   exc    |-> _parse_sse_response(body).exc,
                   doc    |-> _parse_sse_response(body).doc,
                   appended |-> appended_payloads(splitlines(body)) ]
    /\ UNCHANGED << config, session, task, trace, ops, next_id, posts, clean,
                    init_returns, recorded, frame, body >>

\* The replies that carry the body the server has written, under each
\* content type.
BodyReplies == { Response(200, None, ct, body) : ct \in ContentTypes }

\* One call on a client whose server answers with the body it has written:
\* the reply to initialize and to tools/list is that body, under any content
\* type.
ParseNext ==
    \/ WriteLine(MaxLines)
    \/ WriteLastLine
    \/ ParseSse
    \/ \E c \in SeqCallers :
          \/ Initialize(c, 1)
          \/ GetMcpTools(c, 1)
          \/ InitializeReply(c, BodyReplies)
          \/ NotificationReply(c, {Response(202, None, NoContentType, <<>>)})
          \/ RequestReply(c, BodyReplies)

\* The client makes its calls itself (init_mode none).
ParseInit == Constructed({NoHeaders}) /\ init_mode = "none"

ParseSpec == ParseInit /\ [][ParseNext]_vars


\* -------------------------------------------- the methods of the OpenAI adapter

\* tool_call.function.arguments: the text of a JSON object, or a text that
\* is not JSON.
ArgumentTexts == { <<"O">>, <<"{">> }

\* The lists of tool calls the application may hand over: up to max tool
\* calls, with ids 1, 2, ... in the order of the list.
ToolCallLists(max) ==
    UNION { { [i \in 1..n |-> [id |-> i, name |-> "ping", arguments |-> a[i]]] :
                a \in [1..n -> ArgumentTexts] } : n \in 0..max }

\* await adapter.get_tool_definitions()
GetToolDefinitions(c, max) ==
    /\ CanCall(c, max)
    /\ ops' = ops + 1
    /\ Becomes(_ensure_initialized(
           called([Cur EXCEPT !.frame[c] =
                       [IdleFrame EXCEPT !.method = "get_tool_definitions"]],
                  c, "get_mcp_tools"), c))

\* await adapter.process_tool_calls(tool_calls, return_errors)
ProcessToolCalls(c, max, lists) ==
    /\ CanCall(c, max)
    /\ ops' = ops + 1
    /\ \E tool_calls \in lists, return_errors \in BOOLEAN :
          Becomes(process_tool_calls_from(
              [Cur EXCEPT !.frame[c] =
                   [IdleFrame EXCEPT !.method = "process_tool_calls",
                                     !.tool_calls = tool_calls,
                                     !.return_errors = return_errors]],
              c, 1))

\* What the server answers to the calls of the adapter: a handshake that
\* succeeds or fails; the tools as a JSON-RPC response or as a bare array, an
\* event stream without event, a failure status, no reply.
AdapterInitializeReplies ==
    { Response(200, "sess-1", JsonType, <<"A">>),
      Response(400, None, PlainType, <<>>) }

AdapterNotificationReplies == { Response(202, None, NoContentType, <<>>) }

AdapterRequestReplies ==
    { Response(200, None, JsonType, <<"T">>),
      Response(200, None, JsonType, <<"L">>),
      Response(200, None, EventStreamType, SseNoData),
      Response(400, None, PlainType, <<>>),
      PostTimeout }

\* The application calls the methods of MCPToolAdapterOpenAI one after the
\* other.
AdapterNext ==
    \E c \in SeqCallers :
        \/ GetToolDefinitions(c, MaxAdapterCalls)
        \/ ProcessToolCalls(c, MaxAdapterCalls, ToolCallLists(MaxToolCalls))
        \/ InitializeReply(c, AdapterInitializeReplies)
        \/ NotificationReply(c, AdapterNotificationReplies)
        \/ RequestReply(c, AdapterRequestReplies)

AdapterInit == Constructed({NoHeaders})

AdapterSpec == AdapterInit /\ [][AdapterNext]_vars

\* Several callers on the one adapter: their steps interleave at the awaits.
\* The racing callers call initialize() and get_mcp_tools(); call_mcp_tool()
\* runs the same code with another envelope.
ConcNext ==
    \E c \in Callers :
        \/ Initialize(c, MaxRacingOps)
        \/ GetMcpTools(c, MaxRacingOps)
        \/ InitializeReply(c, RacingInitializeReplies)
        \/ NotificationReply(c, RacingNotificationReplies)
        \/ RequestReply(c, RacingRequestReplies)

\* The racing callers share a client built without extra headers.
ConcInit == Init /\ headers = NoHeaders

ConcSpec == ConcInit /\ [][ConcNext]_vars

\* =================================================================== claims

PublicOps == {"get_mcp_tools", "call_mcp_tool"}

\* The method of the envelope of a public operation.
OpMethod(c) == IF task[c].op = "get_mcp_tools" THEN "tools/list" ELSE "tools/call"

\* The call of c has started and has ended (returned or raised).
Done(c) == task[c].pc = "idle" /\ trace[c].outcome.kind # None

SentMethods(c) == [i \in 1..Len(trace[c].sent) |-> trace[c].sent[i].method]

IsPrefix(a, b) == Len(a) <= Len(b) /\ SubSeq(b, 1, Len(a)) = a

\* A response with a status that raise_for_status rejects.
ErrorStatus(r) == r.exc = None /\ ~Is2xx(r.status)

\* The replies the call of c has received from its i-th on were successes.
OkFrom(c, i) ==
    \A j \in i..Len(trace[c].got) :
        ReplyOk(trace[c].sent[j].method, trace[c].got[j])

Returned(c, doc) ==
    /\ Done(c)
    /\ trace[c].outcome.kind = "return"
    /\ trace[c].outcome.doc = doc

\* The call of c ended with the HTTPStatusError of its i-th request.
RaisedStatusOf(c, i) ==
    /\ Done(c)
    /\ trace[c].outcome.kind = "raise"
    /\ trace[c].outcome.exc = "HTTPStatusError"
    /\ trace[c].outcome.at = i
    /\ trace[c].outcome.status = trace[c].got[i].status

\* A public operation under on_fail, begun before the handshake completed,
\* whose first request was answered with an error status.
LazyFirstFailed(c) ==
    /\ init_mode = "on_fail"
    /\ task[c].op \in PublicOps
    /\ ~trace[c].initialized
    /\ Len(trace[c].got) >= 1
    /\ ErrorStatus(trace[c].got[1])

RecoverySequence(c) ==
    << OpMethod(c), "initialize", "notifications/initialized", OpMethod(c) >>

\* C1: under on_fail with the handshake not completed, when the first request
\* of a public operation gets a non-2xx status and every later reply is a
\* success, the requests of the operation are, in order, the request,
\* initialize, notifications/initialized and the same envelope again (four in
\* all), and the operation returns the parsed reply of the last one.
C1_LazyRetryRecovers ==
    \A c \in Callers :
        (LazyFirstFailed(c) /\ OkFrom(c, 2)) =>
            /\ IsPrefix(SentMethods(c), RecoverySequence(c))
            /\ Len(trace[c].sent) >= 2
            /\ Done(c) =>
                  /\ SentMethods(c) = RecoverySequence(c)
                  /\ trace[c].sent[4].id = trace[c].sent[1].id
                  /\ Returned(c, _parse_response(trace[c].got[4]).doc)

C1_Witness ==
    \E c \in Callers :
        /\ LazyFirstFailed(c) /\ OkFrom(c, 2) /\ Done(c)
        /\ Len(trace[c].got) = 4
        /\ trace[c].outcome.doc = Doc("T")

\* C2: under on_fail with the handshake not completed, when the first request
\* and the retried request both get a non-2xx status, the operation raises the
\* error of the retried request (its status, not the first one's) and has
\* sent exactly four requests, none after the retry.
C2_RetryErrorPropagates ==
    \A c \in Callers :
        \A i \in 2..Len(trace[c].got) :
            ( /\ LazyFirstFailed(c)
              /\ trace[c].sent[i].method = OpMethod(c)
              /\ ErrorStatus(trace[c].got[i]) ) =>
                /\ i = 4
                /\ Len(trace[c].sent) = 4
                /\ SentMethods(c) = RecoverySequence(c)
                /\ RaisedStatusOf(c, 4)

C2_Witness ==
    \E c \in Callers :
        /\ LazyFirstFailed(c) /\ Done(c)
        /\ Len(trace[c].got) = 4
        /\ trace[c].got[1].status = 400
        /\ trace[c].got[4].status = 500
        /\ trace[c].outcome.status = 500

\* C3: under on_fail, a public operation begun when the handshake had already
\* completed sends one request only; answered with a non-2xx status it raises
\* that error, with no handshake and no retry.
C3_NoRetryWhenInitialized ==
    \A c \in Callers :
        (init_mode = "on_fail" /\ task[c].op \in PublicOps /\ trace[c].initialized) =>
            /\ SentMethods(c) = << OpMethod(c) >>
            /\ (Len(trace[c].got) >= 1 /\ ErrorStatus(trace[c].got[1])) =>
                  RaisedStatusOf(c, 1)

C3_Witness ==
    \E c \in Callers :
        /\ init_mode = "on_fail" /\ task[c].op \in PublicOps /\ trace[c].initialized
        /\ Len(trace[c].got) = 1 /\ ErrorStatus(trace[c].got[1])
        /\ Done(c)

\* The number of requests of the call of c with the given method.
CountSent(c, method) ==
    Cardinality({i \in 1..Len(trace[c].sent) : trace[c].sent[i].method = method})

\* The caller waits for exactly one reply, and the step that receives it can
\* be taken.
AwaitsOneReply(c) ==
    /\ Len(trace[c].sent) = Len(trace[c].got) + 1
    /\ \/ task[c].pc = "await_initialize" /\ ENABLED InitializeReply(c, InitializeReplies)
       \/ task[c].pc = "await_notification" /\ ENABLED NotificationReply(c, NotificationReplies)
       \/ task[c].pc = "await_request" /\ ENABLED RequestReply(c, RequestReplies)

\* C4: whatever the policy and the replies, a public operation sends its
\* envelope at most twice, a second time only under on_fail, runs at most one
\* handshake, and sends at most four requests (three under auto, exactly one
\* under none); as long as it has not ended it waits for the reply to its last
\* request, and every reply it has received was followed by its end or by a
\* further request, so it ends after at most four replies.
C4_BoundedRecovery ==
    \A c \in Callers :
        task[c].op \in PublicOps =>
            /\ CountSent(c, OpMethod(c)) <= 2
            /\ CountSent(c, OpMethod(c)) = 2 => init_mode = "on_fail"
            /\ CountSent(c, "initialize") <= 1
            /\ CountSent(c, "notifications/initialized") <= 1
            /\ Len(trace[c].sent) <= 4
            /\ init_mode = "auto" => Len(trace[c].sent) <= 3
            /\ init_mode = "none" => Len(trace[c].sent) = 1
            /\ task[c].pc # "idle" => AwaitsOneReply(c)
            /\ task[c].pc = "idle" =>
                  Done(c) /\ Len(trace[c].got) = Len(trace[c].sent)

C4_Witness ==
    \E c \in Callers :
        /\ task[c].op \in PublicOps /\ Done(c)
        /\ CountSent(c, OpMethod(c)) = 2
        /\ Len(trace[c].sent) = 4
        /\ trace[c].outcome.kind = "raise"

\* C5: under auto, a public operation begun on a client without a completed
\* handshake and answered with successes sends, in order, initialize,
\* notifications/initialized and its request (three in all) and returns the
\* parsed reply of the request.
C5_EagerHandshakeFirst ==
    \A c \in Callers :
        ( /\ init_mode = "auto" /\ task[c].op \in PublicOps
          /\ ~trace[c].initialized /\ OkFrom(c, 1) ) =>
            /\ IsPrefix(SentMethods(c),
                        << "initialize", "notifications/initialized", OpMethod(c) >>)
            /\ Len(trace[c].sent) >= 1
            /\ Done(c) =>
                  /\ Len(trace[c].sent) = 3
                  /\ Returned(c, _parse_response(trace[c].got[3]).doc)

C5_Witness ==
    \E c \in Callers :
        /\ init_mode = "auto" /\ task[c].op = "call_mcp_tool"
        /\ ~trace[c].initialized /\ OkFrom(c, 1) /\ Done(c)
        /\ Len(trace[c].got) = 3

\* The caller c takes a step of a public operation.
PublicStep(c) ==
    /\ task'[c].op \in PublicOps
    /\ task'[c] # task[c] \/ trace'[c] # trace[c]

\* C6: under none, no step of get_mcp_tools / call_mcp_tool sends an
\* initialize or notifications/initialized request or changes the session
\* state, whatever the replies; such an operation sends exactly one request
\* and, answered with a non-2xx status, raises that error.  (The handshake is
\* run by initialize() alone.)
C6_DisabledNeverHandshakes ==
    /\ [][ init_mode = "none" =>
             \A c \in Callers :
                 PublicStep(c) =>
                     /\ UNCHANGED session
                     /\ posts'["initialize"] = posts["initialize"]
                     /\ posts'["notifications/initialized"] =
                            posts["notifications/initialized"] ]_vars
    /\ [] ( init_mode = "none" =>
              \A c \in Callers :
                  task[c].op \in PublicOps =>
                      /\ SentMethods(c) = << OpMethod(c) >>
                      /\ (Len(trace[c].got) >= 1 /\ ErrorStatus(trace[c].got[1])) =>
                            RaisedStatusOf(c, 1) )

C6_Witness ==
    \E c \in Callers :
        /\ init_mode = "none" /\ task[c].op \in PublicOps
        /\ Done(c) /\ ErrorStatus(trace[c].got[1])
        /\ posts["initialize"] = 1
        /\ _initialize_result # NoDoc

\* C7: with calls issued one after the other and a server that answers with
\* successes, however many initialize() calls are made, one initialize request
\* and one notifications/initialized request are sent in all and every call
\* returns the same result; a call begun when the result is stored sends
\* nothing.
C7_InitializeIdempotent ==
    /\ \A c \in Callers :
          (task[c].op = "initialize" /\ trace[c].initialized) =>
              /\ trace[c].sent = <<>>
              /\ Returned(c, _initialize_result)
    /\ clean =>
          /\ posts["initialize"] <= 1
          /\ posts["notifications/initialized"] <= posts["initialize"]
          /\ Cardinality(init_returns) <= 1
          /\ init_returns # {} =>
                /\ posts["initialize"] = 1
                /\ posts["notifications/initialized"] = 1
                /\ init_returns = {_initialize_result}

C7_Witness ==
    \E c \in Callers :
        /\ clean /\ ops = MaxOps
        /\ task[c].op = "initialize" /\ trace[c].initialized /\ Done(c)
        /\ posts["initialize"] = 1
        /\ posts["tools/list"] = 0 /\ posts["tools/call"] = 0

\* C8: with calls issued one after the other and any replies, a stored
\* session id never changes to another value, and a stored protocol version
\* never changes.
C8_SessionNeverRenegotiated ==
    [][ /\ Truthy(_session_id) => _session_id' = _session_id
        /\ Truthy(_protocol_version) => _protocol_version' = _protocol_version ]_vars

\* C9: under any interleaving of callers, a stored session id is never reset
\* to None and a stored initialize result is never reset to None, whatever
\* the later replies.
C9_SessionNeverCleared ==
    [][ /\ Truthy(_session_id) => Truthy(_session_id')
        /\ _initialize_result # NoDoc => _initialize_result' # NoDoc ]_vars

\* A request of a call carried the session id and was answered with an
\* error status after the handshake had completed.
C9_Witness ==
    \E c \in Callers :
        /\ Done(c) /\ task[c].op \in PublicOps
        /\ trace[c].initialized
        /\ trace[c].sent[1].headers["Mcp-Session-Id"] = "sess-1"
        /\ ErrorStatus(trace[c].got[1])
        /\ _session_id = "sess-1"
        /\ _initialize_result # NoDoc
        /\ \E d \in Callers \ {c} : Done(d) /\ task[d].op = "initialize"

\* The session and version headers a request sent after the recorded
\* handshake must carry.
FollowsHandshake(request) ==
    /\ request.headers["Mcp-Session-Id"] = recorded.session_id
    /\ request.headers["MCP-Protocol-Version"] =
          negotiated_version(_parse_response(recorded).doc)

\* C10: no request sent before any handshake was run carries Mcp-Session-Id,
\* nor does an initialize request; every request sent after a handshake has
\* completed (by a call begun after it, or later in the call that ran it)
\* carries the session id of the handshake's reply (no Mcp-Session-Id when the
\* reply had none) and the negotiated version as MCP-Protocol-Version.
C10_HeadersFollowHandshake ==
    \A c \in Callers :
        /\ posts["initialize"] = 0 =>
              \A i \in 1..Len(trace[c].sent) :
                  trace[c].sent[i].headers["Mcp-Session-Id"] = None
        /\ \A i \in 1..Len(trace[c].sent) :
              trace[c].sent[i].method = "initialize" =>
                  trace[c].sent[i].headers["Mcp-Session-Id"] = None
        /\ trace[c].initialized =>
              \A j \in 1..Len(trace[c].sent) : FollowsHandshake(trace[c].sent[j])
        /\ \A i \in 1..Len(trace[c].got) :
              ( /\ trace[c].sent[i].method = "initialize"
                /\ ReplyOk("initialize", trace[c].got[i]) ) =>
                  \A j \in (i + 2)..Len(trace[c].sent) :
                      FollowsHandshake(trace[c].sent[j])

DualAccept == "application/json, text/event-stream"

\* C11: every request the client sends carries an Accept header that lists
\* application/json and text/event-stream, whatever extra headers the client
\* was built with.
C11_AcceptAlways ==
    \A c \in Callers :
        \A i \in 1..Len(trace[c].sent) :
            trace[c].sent[i].headers["Accept"] = DualAccept

\* The request carries the session id and the protocol version that were
\* stored when it was sent, the Accept header and the extra headers.
CarriesStored(q) ==
    /\ Truthy(q.stored.protocol_version) =>
          q.headers["MCP-Protocol-Version"] = q.stored.protocol_version
    /\ Truthy(q.stored.session_id) =>
          q.headers["Mcp-Session-Id"] = q.stored.session_id
    /\ q.headers["Accept"] = DualAccept
    /\ \A n \in HeaderNames : headers[n] # None => q.headers[n] = headers[n]

\* C12: every request sent after the negotiation (notifications/initialized,
\* a substantive request, a retried request) carries MCP-Protocol-Version
\* with the stored version when one is stored and Mcp-Session-Id with the
\* stored session id when one is stored, with the Accept header and the
\* extra headers.
C12_NegotiatedHeadersOnEveryRequest ==
    \A c \in Callers :
        \A i \in 1..Len(trace[c].sent) :
            trace[c].sent[i].method # "initialize" => CarriesStored(trace[c].sent[i])

\* The i-th request of the call of c is the notification and its reply had
\* an error status.
NotificationFailed(c, i) ==
    /\ i <= Len(trace[c].got)
    /\ trace[c].sent[i].method = "notifications/initialized"
    /\ ErrorStatus(trace[c].got[i])

\* C13: when the initialize request was answered with a success and the
\* notification with a non-2xx status, the handshake is complete all the same:
\* the result is stored, initialize() returns the initialize reply without an
\* error, and a public operation (under auto, or in the recovery of on_fail)
\* goes on to send its request.
C13_NotificationStatusIgnored ==
    \A c \in Callers :
        \A i \in 2..Len(trace[c].sent) :
            NotificationFailed(c, i) =>
                /\ _initialize_result # NoDoc
                /\ _initialize_result = _parse_response(trace[c].got[i - 1]).doc
                /\ task[c].op = "initialize" =>
                      Returned(c, _parse_response(trace[c].got[i - 1]).doc)
                /\ task[c].op \in PublicOps =>
                      /\ Len(trace[c].sent) > i
                      /\ trace[c].sent[i + 1].method = OpMethod(c)

C13_Witness ==
    \E c \in Callers :
        /\ NotificationFailed(c, 3)
        /\ init_mode = "on_fail"
        /\ Len(trace[c].sent) = 4
        /\ Returned(c, Doc("T"))

\* The call of c has just received, as the reply to an initialize request, a
\* response with an error status.
InitializeJustFailed(c) ==
    /\ Len(trace'[c].got) = Len(trace[c].got) + 1
    /\ trace'[c].sent[Len(trace'[c].got)].method = "initialize"
    /\ ErrorStatus(trace'[c].got[Len(trace'[c].got)])

\* C14: when the initialize request is answered with a non-2xx status, the
\* call raises that error, no notification is sent and the three session
\* fields are left as they were; under auto the public operation has not sent
\* its request; and a public operation begun under auto while no result is
\* stored starts with an initialize request (again).
C14_InitializeFailureAborts ==
    /\ [][ \A c \in Callers : InitializeJustFailed(c) => UNCHANGED session ]_vars
    /\ [] ( \A c \in Callers :
              /\ \A i \in 1..Len(trace[c].got) :
                    ( /\ trace[c].sent[i].method = "initialize"
                      /\ ErrorStatus(trace[c].got[i]) ) =>
                        /\ RaisedStatusOf(c, i)
                        /\ Len(trace[c].sent) = i
                        /\ CountSent(c, "notifications/initialized") = 0
                        /\ init_mode = "auto" /\ task[c].op \in PublicOps =>
                              CountSent(c, OpMethod(c)) = 0
              /\ ( /\ init_mode = "auto" /\ task[c].op \in PublicOps
                   /\ ~trace[c].initialized ) =>
                      /\ Len(trace[c].sent) >= 1
                      /\ trace[c].sent[1].method = "initialize" )

\* A second public operation under auto has run the handshake again and
\* failed like the first.
C14_Witness ==
    \E c \in Callers :
        /\ init_mode = "auto" /\ task[c].op \in PublicOps
        /\ ops = 2 /\ posts["initialize"] = 2
        /\ posts["tools/list"] = 0 /\ posts["tools/call"] = 0
        /\ Done(c) /\ trace[c].outcome.exc = "HTTPStatusError"
        /\ _initialize_result = NoDoc /\ _session_id = None

\* A 2xx response whose event-stream body holds no event.
EmptyEventStream(r) ==
    /\ r.exc = None
    /\ Is2xx(r.status)
    /\ IsEventStream(r.content_type)
    /\ _parse_sse_response(r.text).exc = "ValueError"

\* C15: under on_fail with the handshake not completed, a 2xx reply whose
\* event-stream body holds no event does not start the recovery: the
\* operation raises the ValueError after its one request, with no handshake
\* and no retry.
C15_ProtocolErrorNotRetried ==
    \A c \in Callers :
        ( /\ init_mode = "on_fail" /\ task[c].op \in PublicOps
          /\ ~trace[c].initialized
          /\ Len(trace[c].got) >= 1
          /\ EmptyEventStream(trace[c].got[1]) ) =>
            /\ Done(c)
            /\ SentMethods(c) = << OpMethod(c) >>
            /\ trace[c].outcome.kind = "raise"
            /\ trace[c].outcome.exc = "ValueError"
            /\ _initialize_result = NoDoc

C15_Witness ==
    \E c \in Callers :
        /\ init_mode = "on_fail" /\ task[c].op \in PublicOps
        /\ ~trace[c].initialized
        /\ Len(trace[c].got) = 1
        /\ EmptyEventStream(trace[c].got[1])
        /\ Done(c)

TimedOut(r) == r.exc = "TimeoutException"

\* C16 as the specification states it: under on_fail with the handshake not
\* completed, a public operation whose first request timed out goes on to
\* the handshake (and then to one resend).
C16_TimeoutRetried ==
    \A c \in Callers :
        ( /\ init_mode = "on_fail" /\ task[c].op \in PublicOps
          /\ ~trace[c].initialized
          /\ Len(trace[c].got) >= 1
          /\ TimedOut(trace[c].got[1]) ) =>
            /\ Len(trace[c].sent) >= 2
            /\ trace[c].sent[2].method = "initialize"

\* C16: a timeout of any request (the substantive request, initialize or the
\* notification) under any mode ends the call with the TimeoutException: the
\* timed-out request is the last request of the call, so no handshake and no
\* resend follow it, and it stores nothing.
C16_TimeoutPropagates ==
    \A c \in Callers :
        \A i \in 1..Len(trace[c].got) :
            TimedOut(trace[c].got[i]) =>
                /\ Done(c)
                /\ Len(trace[c].sent) = i
                /\ trace[c].outcome.kind = "raise"
                /\ trace[c].outcome.exc = "TimeoutException"

C16_Witness ==
    \E c \in Callers :
        /\ init_mode = "on_fail" /\ task[c].op \in PublicOps
        /\ ~trace[c].initialized
        /\ SentMethods(c) = << OpMethod(c) >>
        /\ Len(trace[c].got) = 1
        /\ TimedOut(trace[c].got[1])
        /\ Done(c)
        /\ _initialize_result = NoDoc

\* The session id a handshake whose initialize reply was r establishes.
EstablishedSessionId(r) == IF Truthy(r.session_id) THEN r.session_id ELSE None

\* C17: in the recovery of on_fail the fourth request of the operation has
\* the id, the method and the params of the first; the first carried neither
\* Mcp-Session-Id nor MCP-Protocol-Version; the fourth carries the session id
\* and the protocol version that the handshake in between established.
C17_RetrySameEnvelopeFreshHeaders ==
    \A c \in Callers :
        ( /\ init_mode = "on_fail" /\ task[c].op \in PublicOps
          /\ Len(trace[c].sent) >= 4
          /\ trace[c].sent[2].method = "initialize" ) =>
            LET first == trace[c].sent[1]
                retry == trace[c].sent[4]
                reply == trace[c].got[2]
            IN  /\ retry.id = first.id
                /\ retry.method = first.method
                /\ retry.params = first.params
                /\ first.headers["Mcp-Session-Id"] = None
                /\ first.headers["MCP-Protocol-Version"] = None
                /\ retry.headers["Mcp-Session-Id"] = EstablishedSessionId(reply)
                /\ retry.headers["MCP-Protocol-Version"] =
                      negotiated_version(_parse_response(reply).doc)

\* A reply that came with a 2xx status.
Answered2xx(r) == r.exc = None /\ Is2xx(r.status)

\* C18: within one call the requests are sent one after the other: the
\* notification follows an initialize request whose reply has been received,
\* parsed and stored (the stored version is the negotiated one when the
\* notification is sent); a tools request that is not the first request of
\* the call follows the notification, whose reply has been received; and at
\* most one request of the call is without its reply.
C18_StrictlySequential ==
    \A c \in Callers :
        /\ Len(trace[c].sent) <= Len(trace[c].got) + 1
        /\ \A i \in 1..Len(trace[c].sent) :
              /\ trace[c].sent[i].method = "notifications/initialized" =>
                    /\ i >= 2
                    /\ trace[c].sent[i - 1].method = "initialize"
                    /\ Len(trace[c].got) >= i - 1
                    /\ Answered2xx(trace[c].got[i - 1])
                    /\ _parse_response(trace[c].got[i - 1]).exc = None
                    /\ trace[c].sent[i].stored.protocol_version =
                          negotiated_version(_parse_response(trace[c].got[i - 1]).doc)
              /\ ( /\ i >= 2
                   /\ trace[c].sent[i].method \in {"tools/list", "tools/call"} ) =>
                    /\ trace[c].sent[i - 1].method = "notifications/initialized"
                    /\ Len(trace[c].got) >= i - 1
                    /\ trace[c].got[i - 1].exc = None

\* A public operation under auto has sent its request after the handshake.
C18_Witness ==
    \E c \in Callers :
        /\ init_mode = "auto" /\ task[c].op \in PublicOps
        /\ SentMethods(c) = << "initialize", "notifications/initialized", OpMethod(c) >>
        /\ Len(trace[c].got) = 2

\* The call of c runs the handshake at its start: initialize(), or a public
\* operation under auto, begun while no result was stored.
StartsWithHandshake(c) ==
    /\ task[c].op # None
    /\ ~trace[c].initialized
    /\ \/ task[c].op = "initialize"
       \/ task[c].op \in PublicOps /\ init_mode = "auto"

\* The i-th request of the call of c is an initialize request whose reply
\* has been received, had a 2xx status and was parsed.
InitializeAnswered(c, i) ==
    /\ i <= Len(trace[c].got)
    /\ trace[c].sent[i].method = "initialize"
    /\ Answered2xx(trace[c].got[i])
    /\ _parse_response(trace[c].got[i]).exc = None

\* C19: the handshake is not single-flight. Every call that runs the
\* handshake at its start sends its own initialize request, whatever the
\* other callers have in flight, and every call whose initialize request was
\* answered with a parsable 2xx reply sends its own notification; so two
\* calls in flight before the first handshake completes send two initialize
\* requests and two notifications.
C19_HandshakeNotSingleFlight ==
    \A c \in Callers :
        /\ StartsWithHandshake(c) =>
              /\ Len(trace[c].sent) >= 1
              /\ trace[c].sent[1].method = "initialize"
        /\ \A i \in 1..Len(trace[c].got) :
              InitializeAnswered(c, i) =>
                  /\ Len(trace[c].sent) >= i + 1
                  /\ trace[c].sent[i + 1].method = "notifications/initialized"

\* Two callers have each sent an initialize request and a notification, and
\* the client has sent two of each.
C19_Witness ==
    /\ posts["initialize"] = 2
    /\ posts["notifications/initialized"] = 2
    /\ \A c \in Callers :
          /\ StartsWithHandshake(c)
          /\ CountSent(c, "initialize") = 1
          /\ CountSent(c, "notifications/initialized") = 1

\* The call of c ran a handshake that succeeded and finished: its
\* initialize request was answered with a parsable 2xx reply and the post of
\* its notification was answered.
HandshakeFinished(c) ==
    \E i \in 1..Len(trace[c].got) :
        /\ InitializeAnswered(c, i)
        /\ i + 1 <= Len(trace[c].got)
        /\ trace[c].got[i + 1].exc = None

\* The initialize reply of the handshake of the call of c.
HandshakeReply(c) ==
    trace[c].got[CHOOSE i \in 1..Len(trace[c].got) : InitializeAnswered(c, i)]

\* Two handshakes raced on the client and both have succeeded and finished:
\* the client sent two initialize requests, one in the call of each caller.
TwoHandshakesFinished ==
    /\ posts["initialize"] = 2
    /\ \A c \in Callers : HandshakeFinished(c)

StickySessionId(last) ==
    IF Truthy(last.session_id)
    THEN last.session_id
    ELSE IF \E c \in Callers : Truthy(HandshakeReply(c).session_id)
    THEN HandshakeReply(CHOOSE c \in Callers :
                            Truthy(HandshakeReply(c).session_id)).session_id
    ELSE None

HeaderFor(field) == IF Truthy(field) THEN field ELSE None

\* C21: under any interleaving of the callers, every request carries as
\* Mcp-Session-Id and MCP-Protocol-Version the session id and the protocol
\* version that are stored at the moment it is sent (no header for a field
\* that is not stored).
C21_HeadersFreshAtSend ==
    \A c \in Callers :
        \A i \in 1..Len(trace[c].sent) :
            /\ trace[c].sent[i].headers["Mcp-Session-Id"] =
                  HeaderFor(trace[c].sent[i].stored.session_id)
            /\ trace[c].sent[i].headers["MCP-Protocol-Version"] =
                  HeaderFor(trace[c].sent[i].stored.protocol_version)

\* The requests the client has sent so far.
TotalPosts ==
    posts["initialize"] + posts["notifications/initialized"]
        + posts["tools/list"] + posts["tools/call"]

\* Every call made so far was a public operation, and every reply a success.
OnlyPublicOpsAnswered(c) ==
    /\ clean
    /\ init_returns = {}
    /\ task[c].op \in PublicOps

\* C27: under auto, with calls made one after the other and successful
\* replies, the handshake is run once: after k public operations the client
\* has sent k + 2 requests (one initialize, one notification, k envelopes),
\* and an operation begun after the first sends its one request only.
C27_EagerHandshakeOnce ==
    \A c \in Callers :
        (init_mode = "auto" /\ OnlyPublicOpsAnswered(c)) =>
            /\ posts["initialize"] = 1
            /\ posts["notifications/initialized"] <= 1
            /\ trace[c].initialized =>
                  /\ ops >= 2
                  /\ SentMethods(c) = << OpMethod(c) >>
            /\ Done(c) =>
                  /\ TotalPosts = ops + 2
                  /\ posts["tools/list"] + posts["tools/call"] = ops

C27_Witness ==
    \E c \in Callers :
        /\ init_mode = "auto" /\ OnlyPublicOpsAnswered(c)
        /\ ops = MaxOps /\ Done(c)
        /\ TotalPosts = MaxOps + 2

\* In the recovery of the call of c, the initialize request was answered
\* with an error status, as the request before it.
RecoveryHandshakeFailed(c) ==
    /\ LazyFirstFailed(c)
    /\ Len(trace[c].got) >= 2
    /\ trace[c].sent[2].method = "initialize"
    /\ ErrorStatus(trace[c].got[2])

\* C28: under on_fail with the handshake not completed, when the request
\* and then the initialize request of the recovery are answered with error
\* statuses, the operation raises the error of the initialize request after
\* these two requests (no notification, no resend) and nothing is stored;
\* and every operation whose first request fails while nothing is stored
\* goes on to an initialize request.
C28_RecoveryHandshakeFailure ==
    \A c \in Callers :
        /\ RecoveryHandshakeFailed(c) =>
              /\ RaisedStatusOf(c, 2)
              /\ SentMethods(c) = << OpMethod(c), "initialize" >>
              /\ _initialize_result = NoDoc
              /\ _protocol_version = None
        /\ LazyFirstFailed(c) =>
              /\ Len(trace[c].sent) >= 2
              /\ trace[c].sent[2].method = "initialize"

\* A second operation has gone through the same failing recovery, the
\* handshake's status differing from the request's.
C28_Witness ==
    \E c \in Callers :
        /\ RecoveryHandshakeFailed(c)
        /\ ops = 2 /\ posts["initialize"] = 2
        /\ trace[c].got[1].status = 400
        /\ trace[c].got[2].status = 500
        /\ trace[c].outcome.status = 500

\* The call of c receives the reply to its tools/list or tools/call request
\* and sends no request in the same step (it does not enter the recovery).
SubstantiveReplyStep(c) ==
    /\ task[c].pc = "await_request"
    /\ Len(trace'[c].got) = Len(trace[c].got) + 1
    /\ Len(trace'[c].sent) = Len(trace[c].sent)

\* C30: a step that receives the reply to a substantive request and does not
\* enter the recovery leaves the session id, the protocol version and the
\* stored result as they were, whatever the reply; and no step changes the
\* configuration (init_mode, headers).
C30_OnlyHandshakeMutatesSession ==
    /\ [][ \A c \in Callers : SubstantiveReplyStep(c) => UNCHANGED session ]_vars
    /\ [][ UNCHANGED config ]_vars

\* A substantive request was answered with a reply carrying a session id,
\* and another one (or none) is stored.
C30_Witness ==
    \E c \in Callers :
        /\ Done(c) /\ task[c].op \in PublicOps
        /\ Len(trace[c].got) >= 1
        /\ trace[c].got[Len(trace[c].got)].session_id = "sess-2"
        /\ trace[c].sent[Len(trace[c].got)].method = OpMethod(c)
        /\ _session_id # "sess-2"

\* The protocol version an initialize reply supplies in its result object
\* (None when the result has no protocolVersion that is a string).
SuppliedVersion(doc) ==
    IF doc.hasResult /\ doc.protocolVersion \notin {Missing, None}
    THEN doc.protocolVersion
    ELSE None

\* C29: whenever a result is stored, the protocol version is populated: it
\* is the protocolVersion of the result object of the stored reply when the
\* reply supplied one and 2025-06-18 otherwise; and no protocol version is
\* stored while no result is stored.
C29_VersionFollowsResult ==
    /\ _initialize_result # NoDoc =>
          /\ Truthy(_protocol_version)
          /\ _protocol_version =
                IF SuppliedVersion(_initialize_result) # None
                THEN SuppliedVersion(_initialize_result)
                ELSE PROTOCOL_VERSION
    /\ _initialize_result = NoDoc => _protocol_version = None

\* The events of an event-stream body, each as the text of its data: the
\* data lines (without the prefix) up to a blank line form one event, and
\* the data lines after the last blank line form one more.
RECURSIVE EventPayloads(_, _)
EventPayloads(lines, buffer) ==
    IF lines = <<>>
    THEN IF buffer # <<>> THEN << join_lines(buffer) >> ELSE <<>>
    ELSE IF startswith(Head(lines), DataPrefix)
    THEN EventPayloads(Tail(lines), Append(buffer, data_payload(Head(lines))))
    ELSE IF Head(lines) = <<>> /\ buffer # <<>>
    THEN << join_lines(buffer) >> \o EventPayloads(Tail(lines), <<>>)
    ELSE EventPayloads(Tail(lines), buffer)

EventsOf(text) == EventPayloads(splitlines(text), <<>>)

LastOf(seq) == seq[Len(seq)]

NoDataLine(text) ==
    \A i \in 1..Len(splitlines(text)) : ~startswith(splitlines(text)[i], DataPrefix)

\* C23: parsing an event-stream body without any data line (an empty body,
\* or blank lines and other fields only) raises the ValueError and gives no
\* result.
C23_NoEventRaises ==
    (parsed.called /\ NoDataLine(body)) =>
        /\ parsed.exc = "ValueError"
        /\ parsed.doc = NoDoc

C23_Witness ==
    /\ parsed.called
    /\ Len(splitlines(body)) = MaxLines
    /\ NoDataLine(body)
    /\ \E i \in 1..MaxLines : splitlines(body)[i] = <<>>
    /\ \E i \in 1..MaxLines : splitlines(body)[i] # <<>>
    /\ parsed.exc = "ValueError"

\* The media type of the content type is text/event-stream (with or without
\* parameters).
NamesEventStream(content_type) ==
    content_type # <<>> /\ content_type[1] = "text/event-stream"

\* What parsing the reply gives when the strategy is chosen by the media
\* type: the event-stream parse, or the parse of one JSON document.
ParsedByShape(r) ==
    IF NamesEventStream(r.content_type)
    THEN _parse_sse_response(r.text)
    ELSE IF json_loads(r.text).ok
    THEN [exc |-> None, doc |-> json_loads(r.text).doc]
    ELSE [exc |-> "JSONDecodeError", doc |-> NoDoc]

\* The text is on one line.
OneLine(text) == \A i \in 1..Len(text) : text[i] # "\n"

\* The text as the single event of an event stream.
AsEvent(text) == DataPrefix \o <<" ">> \o text \o <<"\n", "\n">>

FrameDone(c) == frame[c].outcome.kind # None

\* The definitions of the server's tools, one per tool and in their order.
ExpectedDefinitions == [i \in 1..Len(ServerTools) |-> ToolParam(ServerTools[i])]

\* get_mcp_tools returned to get_tool_definitions a document that lists the
\* server's tools.
GotToolList(c) ==
    /\ frame[c].method = "get_tool_definitions"
    /\ FrameDone(c)
    /\ trace[c].outcome.kind = "return"
    /\ trace[c].outcome.doc.tag \in {"T", "L"}

\* C25: get_tool_definitions, given by get_mcp_tools the reply in which the
\* server lists its tools, returns one definition per tool, in the server's
\* order, with the name, the description and the inputSchema (the empty
\* object schema when the tool has none).
C25_ToolDefinitionsPerTool ==
    \A c \in Callers :
        GotToolList(c) =>
            /\ frame[c].outcome.kind = "return"
            /\ frame[c].results = ExpectedDefinitions

\* What process_tool_calls says in the message of its k-th tool call.
SaysOf(entry) ==
    CASE ~entry.parsed           -> "Failed to parse tool arguments"
      [] entry.kind = "return"   -> "result"
      [] IsHTTPError(entry.exc)  -> "HTTP error calling tool"
      [] OTHER                   -> "Unexpected error"

\* The messages due for the tool calls from the k-th on: one per tool call
\* when return_errors, one per successful tool call otherwise.
RECURSIVE ExpectedMessages(_, _)
ExpectedMessages(f, k) ==
    IF k > Len(f.tool_calls) THEN <<>>
    ELSE IF f.return_errors \/ f.log[k].kind = "return"
    THEN << [ tool_call_id |-> f.tool_calls[k].id,
              role         |-> "tool",
              content      |-> [says |-> SaysOf(f.log[k]), doc |-> f.log[k].doc] ] >>
         \o ExpectedMessages(f, k + 1)
    ELSE ExpectedMessages(f, k + 1)

\* C26: process_tool_calls never raises and goes through every tool call:
\* no request is sent for a tool call whose arguments are not JSON and at
\* least one for every other, whatever became of the tool calls before it;
\* it returns, in the order of the tool calls and with their ids, one message
\* per tool call when return_errors (the result, the HTTP error, another
\* error, or the arguments that could not be parsed) and the messages of the
\* successful ones otherwise.
C26_ProcessToolCallsTotal ==
    \A c \in Callers :
        frame[c].method = "process_tool_calls" =>
            /\ frame[c].outcome.kind # "raise"
            /\ Len(frame[c].log) <= Len(frame[c].tool_calls)
            /\ \A k \in 1..Len(frame[c].log) :
                  /\ frame[c].log[k].parsed =
                        json_loads(frame[c].tool_calls[k].arguments).ok
                  /\ frame[c].log[k].parsed => frame[c].log[k].requests >= 1
                  /\ ~frame[c].log[k].parsed => frame[c].log[k].requests = 0
            /\ ~FrameDone(c) => task[c].pc # "idle"
            /\ FrameDone(c) =>
                  /\ task[c].pc = "idle"
                  /\ Len(frame[c].log) = Len(frame[c].tool_calls)
                  /\ frame[c].results = ExpectedMessages(frame[c], 1)

\* A tool call failed with an HTTP error and the next one succeeded: two
\* messages with return_errors.
C26_Witness ==
    \E c \in Callers :
        /\ frame[c].method = "process_tool_calls" /\ FrameDone(c)
        /\ frame[c].return_errors
        /\ Len(frame[c].tool_calls) = 2
        /\ frame[c].log[1].kind = "raise"
        /\ frame[c].log[1].exc = "HTTPStatusError"
        /\ frame[c].log[2].kind = "return"
        /\ Len(frame[c].results) = 2
        /\ frame[c].results[2].tool_call_id = 2

\* The text after the data field prefix, less one space when it starts with
\* one.
AfterPrefixLessOneSpace(line) ==
    LET rest == SubSeq(line, 6, Len(line))
    IN  IF rest # <<>> /\ Head(rest) = " " THEN Tail(rest) ELSE rest

\* The data lines of a body.
DataLines(text) ==
    SelectSeq(splitlines(text), LAMBDA line : startswith(line, DataPrefix))

\* C31: what the parse of an event-stream body adds to its event buffer for
\* a data line is the line without the data prefix and without at most one
\* space after it: the further leading spaces of the payload stay in the
\* buffer.
C31_AtMostOneSpaceStripped ==
    parsed.called =>
        /\ Len(parsed.appended) = Len(DataLines(body))
        /\ \A k \in 1..Len(parsed.appended) :
              parsed.appended[k] = AfterPrefixLessOneSpace(DataLines(body)[k])

\* Every event of the text has a JSON value as its data (null included).
EveryEventIsJson(text) ==
    \A i \in 1..Len(EventsOf(text)) : json_loads(EventsOf(text)[i]).ok

\* C37: the parse of an event-stream body raises the ValueError of the
\* missing event only when the body has no event with data; when it has one
\* and the data of every event is a JSON value, null included, the parse
\* returns the value of the last event.
C37_NoEventErrorOnlyWithoutEvent ==
    parsed.called =>
        /\ parsed.exc = "ValueError" => EventsOf(body) = <<>>
        /\ (EventsOf(body) # <<>> /\ EveryEventIsJson(body)) =>
              /\ parsed.exc = None
              /\ parsed.doc = json_loads(LastOf(EventsOf(body))).doc

\* The lines of the data of an event (the text between its line feeds).
RECURSIVE PayloadLines(_, _)
PayloadLines(payload, cur) ==
    IF payload = <<>> THEN <<cur>>
    ELSE IF Head(payload) = "\n"
    THEN <<cur>> \o PayloadLines(Tail(payload), <<>>)
    ELSE PayloadLines(Tail(payload), Append(cur, Head(payload)))

\* The body that holds one event with the given data and nothing else: one
\* data line per line of the data.
RECURSIVE DataLinesOf(_)
DataLinesOf(ls) ==
    IF ls = <<>> THEN <<>>
    ELSE DataPrefix \o Head(ls) \o <<"\n">> \o DataLinesOf(Tail(ls))

EventAlone(payload) == DataLinesOf(PayloadLines(payload, <<>>))

\* C38: the outcome of the parse of an event-stream body is the outcome of
\* the parse of a body that holds its last event only, whatever the events
\* before it are, those whose data is not JSON included.
C38_DependsOnLastEventOnly ==
    (parsed.called /\ EventsOf(body) # <<>>) =>
        /\ EventsOf(EventAlone(LastOf(EventsOf(body)))) = << LastOf(EventsOf(body)) >>
        /\ parsed.exc = _parse_sse_response(EventAlone(LastOf(EventsOf(body)))).exc
        /\ parsed.doc = _parse_sse_response(EventAlone(LastOf(EventsOf(body)))).doc

\* The call of c has raised out of initialize(): at its initialize request
\* or at its notification.
RaisedInInitialize(c) ==
    /\ Done(c)
    /\ trace[c].outcome.kind = "raise"
    /\ trace[c].sent # <<>>
    /\ LastOf(trace[c].sent).method \in {"initialize", "notifications/initialized"}

\* C32: when initialize() raises (a failure status, a reply that cannot be
\* parsed, a transport failure of the notification), the session id, the
\* protocol version and the initialize result are what they were when the
\* call began.
C32_FailedInitializeChangesNothing ==
    \A c \in SeqCallers :
        RaisedInInitialize(c) => session = trace[c].before

\* The i-th request of c's call is an initialize request answered 2xx with a
\* body that parses to a document without result member.
AnsweredWithoutResult(c, i) ==
    /\ i <= Len(trace[c].got)
    /\ trace[c].sent[i].method = "initialize"
    /\ trace[c].got[i].exc = None
    /\ Is2xx(trace[c].got[i].status)
    /\ _parse_response(trace[c].got[i]).exc = None
    /\ ~_parse_response(trace[c].got[i]).doc.hasResult

\* C33: the initialize result is only ever stored from a reply with a result
\* member; a 2xx initialize reply whose body is a JSON-RPC error, on a client
\* without initialize result, stores no result and no protocol version, and
\* no notifications/initialized follows it.
C33_CompleteOnlyThroughResult ==
    /\ _initialize_result # NoDoc => _initialize_result.hasResult
    /\ \A c \in SeqCallers : \A i \in 1..Len(trace[c].got) :
          (AnsweredWithoutResult(c, i) /\ trace[c].before[3] = NoDoc) =>
              /\ _initialize_result = NoDoc
              /\ _protocol_version = None
              /\ \A j \in 1..Len(trace[c].sent) :
                    trace[c].sent[j].method # "notifications/initialized"

\* C34: under any interleaving of callers, when an initialize result is
\* stored, the three session fields come from one initialize reply, the one
\* the result was stored from: the result and the version are those of its
\* body, and a session id is stored only if that reply supplied it.
C34_SessionFieldsCoherent ==
    _initialize_result # NoDoc =>
        /\ recorded # NoResponse
        /\ _initialize_result = _parse_response(recorded).doc
        /\ _protocol_version = negotiated_version(_initialize_result)
        /\ Truthy(_session_id) => recorded.session_id = _session_id

\* In this step c begins get_mcp_tools under auto and sends its request
\* at once: _ensure_initialized found the initialize result stored.
SendsRelyingOnHandshake(c) ==
    /\ init_mode = "auto"
    /\ ops' = ops + 1
    /\ trace'[c].initialized
    /\ Len(trace'[c].sent) = 1
    /\ trace'[c].sent[1].method \in {"tools/list", "tools/call"}

\* A notifications/initialized request of some caller has been answered.
NotificationAnswered ==
    \E d \in Callers : \E i \in 1..Len(trace[d].got) :
        /\ trace[d].sent[i].method = "notifications/initialized"
        /\ trace[d].got[i].exc = None

\* C35 as the specification states it: under any interleaving, a caller that
\* finds the handshake done sends its tools/list or tools/call request only
\* after a notifications/initialized request has been sent and answered.
C35_NotificationBeforeRequest ==
    [][ \A c \in Callers : SendsRelyingOnHandshake(c) => NotificationAnswered ]_vars

\* In this step c sends a tools/list or tools/call request in a call in
\* which it has sent an initialize request itself.
SendsAfterOwnHandshake(c) ==
    /\ Len(trace'[c].sent) = Len(trace[c].sent) + 1
    /\ LastOf(trace'[c].sent).method \in {"tools/list", "tools/call"}
    /\ \E i \in 1..Len(trace[c].sent) : trace[c].sent[i].method = "initialize"

\* C35: under any interleaving, a caller that runs the handshake itself sends
\* its tools/list or tools/call request only after its own
\* notifications/initialized request has been answered; a caller that finds
\* the handshake done sends its request at once, when the initialize result
\* is stored and a notifications/initialized request has been sent, answered
\* or not.
C35_OwnNotificationBeforeRequest ==
    [][ \A c \in Callers :
          /\ SendsAfterOwnHandshake(c) =>
                \E j \in 1..Len(trace[c].sent) :
                    /\ trace[c].sent[j].method = "notifications/initialized"
                    /\ Len(trace'[c].got) >= j
                    /\ trace'[c].got[j].exc = None
          /\ SendsRelyingOnHandshake(c) =>
                /\ _initialize_result # NoDoc
                /\ posts["notifications/initialized"] >= 1 ]_vars

\* A caller found the handshake done and sent its request while the other
\* caller was still waiting for the reply to its notification.
C35_Witness ==
    \E c, d \in Callers :
        /\ init_mode = "auto"
        /\ trace[c].initialized
        /\ trace[c].sent # <<>> /\ trace[c].sent[1].method = "tools/list"
        /\ task[d].pc = "await_notification"
        /\ ~NotificationAnswered

\* C36 as the specification states it: under on_fail and any interleaving, a
\* public operation begun before any handshake had completed, whose first
\* request is answered with an error status, goes on to the recovery (it
\* sends a further request) and does not end with that error.
C36_InFlightFailureRetried ==
    \A c \in Callers :
        LazyFirstFailed(c) =>
            /\ Len(trace[c].sent) >= 2
            /\ ~RaisedStatusOf(c, 1)

\* In this step the first request of a public operation of c, begun under
\* on_fail before any handshake had completed, is answered with an error
\* status.
FirstReplyFails(c) ==
    /\ init_mode = "on_fail"
    /\ task[c].op \in PublicOps
    /\ ~trace[c].initialized
    /\ trace[c].sent[1].stored = [session_id |-> None, protocol_version |-> None]
    /\ Len(trace[c].got) = 0
    /\ Len(trace'[c].got) = 1
    /\ ErrorStatus(trace'[c].got[1])

\* C36: under on_fail and any interleaving, whether such a failed request is
\* retried is decided when its reply arrives: with no initialize result
\* stored at that moment the caller sends its own initialize request (and
\* the request again after its handshake); with one stored meanwhile by
\* another caller, the error of the request is raised at once, without
\* handshake and without retry.
C36_RetryDecidedAtReply ==
    [][ \A c \in Callers :
          FirstReplyFails(c) =>
              IF _initialize_result = NoDoc
              THEN /\ SentMethods(c)' = << OpMethod(c), "initialize" >>
                   /\ task'[c].pc = "await_initialize"
              ELSE /\ Len(trace'[c].sent) = 1
                   /\ RaisedStatusOf(c, 1)' ]_vars

\* A request sent without session headers failed after another caller had
\* completed the handshake: its error was raised without a retry.
C36_Witness ==
    \E c, d \in Callers :
        /\ c # d
        /\ LazyFirstFailed(c)
        /\ trace[c].sent[1].stored = [session_id |-> None, protocol_version |-> None]
        /\ RaisedStatusOf(c, 1)
        /\ Len(trace[c].sent) = 1
        /\ task[d].op = "initialize" /\ Returned(d, _initialize_result)

\* The headers that belong to the negotiated session, with the field each
\* one stands for in the record of a request.
SessionHeaderNames == {"Mcp-Session-Id", "MCP-Protocol-Version"}

StoredFor(q, n) ==
    IF n = "Mcp-Session-Id" THEN q.stored.session_id ELSE q.stored.protocol_version

\* C39: whatever extra headers the client was built with, an extra header
\* named Mcp-Session-Id or MCP-Protocol-Version never reaches the wire: no
\* request carries its value, and a request sent while the field is not
\* stored carries no such header.
C39_ExtrasNeverReachWire ==
    \A c \in Callers :
        \A i \in 1..Len(trace[c].sent) :
            \A n \in SessionHeaderNames :
                /\ headers[n] # None => trace[c].sent[i].headers[n] # headers[n]
                /\ ~Truthy(StoredFor(trace[c].sent[i], n)) =>
                      trace[c].sent[i].headers[n] = None

====
